---- MODULE Spec2Model ----
(***************************************************************************)
(* Model of the evmcosmos test-ledger bootstrap code:                      *)
(*   src/ibc/testing/chain.go                    (NewTestChain)            *)
(*   src/testutil/integration/os/network/setup.go (genesis builders)       *)
(*   src/testutil/integration/ibc/coordinator/utils.go                     *)
(*   src/x/vm/types/denom.go                     (Decimals)                *)
(*                                                                         *)
(* The module holds one state machine per component, each with its own     *)
(* specification over the shared variables:                                *)
(*   SpecCoord    coordinator clock and test chains                        *)
(*   SpecBank     balances, supply and the bank genesis override           *)
(*   SpecStaking  staking validator construction                           *)
(*   SpecGenesis  override dispatch through the module genesis registry    *)
(*   SpecMerge    mergeMaps on two chain maps                              *)
(*   SpecDummy    generateDummyChains on a coordinator                     *)
(*   SpecDecimals Decimals.Validate and Decimals.ConversionFactor          *)
(***************************************************************************)
EXTENDS Integers, Sequences, FiniteSets, TLC

VARIABLES
    \* ---- coordinator (ibcgotesting.Coordinator, TestChain) ----
    T0,            \* the coordinator's clock at construction, in seconds
    CurrentTime,   \* coord.CurrentTime, in seconds
    chains,        \* the TestChain objects created so far (index = identity)
    committed,     \* committed[i]: number of CommitBlock calls made on chains[i]
    nCommits,      \* number of CommitBlock calls made on the coordinator
    lastCall,      \* what the last coordinator operation was and what it saw
    \* ---- balances and supply ----
    bankPc,        \* position in the balance/supply pipeline
    accounts,      \* createBalances' accounts argument
    denomDecimals, \* createBalances' denomDecimals argument
    totalBonded,   \* addBondedModuleAccountToFundedBalances' coin argument
    balances,      \* fundedAccountBalances
    totalSupply,   \* the value calculateTotalSupply returned
    \* ---- genesis mapping and overrides ----
    genesisState,  \* the caller's genesis map object (module name -> blob)
    genesisBefore, \* its contents when the last setter/customizeGenesis call began
    customGen,     \* the override mapping passed to the last call
    genResult,     \* outcome of the last setter/customizeGenesis call
    \* ---- staking ----
    stakingCall,   \* arguments and outcome of the last createStakingValidators call
    \* ---- coordinator utilities and decimals ----
    sdkConfig,     \* the process-wide sdk.Config prefixes and address cache switch
    dummyCall,     \* arguments and outcome of the last generateDummyChains call
    mergeCall,     \* the map objects, arguments and result of the last mergeMaps call
    decCall        \* a Decimals value and what Validate and ConversionFactor gave for it

coordVars   == <<T0, CurrentTime, chains, committed, nCommits, lastCall>>
bankVars    == <<bankPc, accounts, denomDecimals, totalBonded, balances, totalSupply>>
genesisVars == <<genesisState, genesisBefore, customGen, genResult>>
stakingVars == <<stakingCall>>
utilVars    == <<sdkConfig, dummyCall, mergeCall, decCall>>
vars        == <<coordVars, bankVars, genesisVars, stakingVars, utilVars>>

(***************************************************************************)
(* Bounds of the model.                                                    *)
(***************************************************************************)
MaxChains == 3
MaxCommits == 5

(***************************************************************************)
(* Generic helpers.                                                        *)
(***************************************************************************)
Range(s) == {s[i] : i \in 1..Len(s)}

SeqsUpTo(S, n) == UNION {[1..k -> S] : k \in 0..n}

(***************************************************************************)
(* cosmossdk.io/math.Int: an arbitrary-precision integer.  TLC's integers  *)
(* are 32 bits wide, so a value is kept as its little-endian limbs in base *)
(* 10^6 without leading zero limbs; zero is the empty sequence.            *)
(***************************************************************************)
Base == 10^6

RECURSIVE NewInt(_)
NewInt(n) == IF n = 0 THEN <<>> ELSE <<n % Base>> \o NewInt(n \div Base)

RECURSIVE IntNorm(_)
IntNorm(a) ==
    IF a = <<>> THEN <<>>
    ELSE IF a[Len(a)] = 0 THEN IntNorm(SubSeq(a, 1, Len(a) - 1))
    ELSE a

RECURSIVE IntAddC(_, _, _)
IntAddC(a, b, c) ==
    IF a = <<>> /\ b = <<>> THEN (IF c = 0 THEN <<>> ELSE <<c>>)
    ELSE LET x == (IF a = <<>> THEN 0 ELSE Head(a))
                  + (IF b = <<>> THEN 0 ELSE Head(b)) + c
         IN  <<x % Base>> \o IntAddC(IF a = <<>> THEN <<>> ELSE Tail(a),
                                     IF b = <<>> THEN <<>> ELSE Tail(b),
                                     x \div Base)

IntAdd(a, b) == IntAddC(a, b, 0)

RECURSIVE IntMulC(_, _, _)
IntMulC(a, k, c) ==
    IF a = <<>> THEN NewInt(c)
    ELSE LET x == Head(a) * k + c
         IN  <<x % Base>> \o IntMulC(Tail(a), k, x \div Base)

\* a * k for a small multiplier k (k < 2000 keeps every step within 32 bits)
IntMulSmall(a, k) == IntNorm(IntMulC(a, k, 0))

RECURSIVE IntCmpFrom(_, _, _)
IntCmpFrom(a, b, i) ==
    IF i = 0 THEN 0
    ELSE IF a[i] < b[i] THEN -1
    ELSE IF a[i] > b[i] THEN 1
    ELSE IntCmpFrom(a, b, i - 1)

\* -1, 0 or 1 as a < b, a = b, a > b
IntCmp(a, b) ==
    IF Len(a) < Len(b) THEN -1
    ELSE IF Len(a) > Len(b) THEN 1
    ELSE IntCmpFrom(a, b, Len(a))

IntLE(a, b) == IntCmp(a, b) <= 0

IntIsZero(a) == a = <<>>

\* 10^k
Pow10(k) == [i \in 1..(k \div 6) |-> 0] \o <<10^(k % 6)>>

\* Int.Quo for a divisor of the form 10^(6j) (the only divisors the code
\* under study passes are conversion factors 1 and 10^12): truncating
\* division drops the j low limbs.
IntQuoPow(a, b) ==
    IF Len(a) < Len(b) THEN <<>>
    ELSE SubSeq(a, Len(b), Len(a))

(***************************************************************************)
(* Coordinator and test chains (src/ibc/testing/chain.go).                 *)
(***************************************************************************)
ChainIDs == {"chain-a", "chain-b"}

StartTimes == {0, 100}

\* "Each update of any chain increments the block header time for all
\* chains by 5 seconds."
TimeIncrement == 5

\* coord.CommitBlock(chain) applied to the chain objects cs, chain number i:
\* the chain's header moves to the next height, the coordinator's clock
\* advances by TimeIncrement and every chain's header takes the new time.
CommitBlock(cs, now, i) ==
    [chains |-> [j \in 1..Len(cs) |->
                    [cs[j] EXCEPT !.Height = IF j = i THEN @ + 1 ELSE @,
                                  !.Time = now + TimeIncrement]],
     CurrentTime |-> now + TimeIncrement]

InitialHeaderAtZero(chainID, now) ==
    [ChainID |-> chainID, Height |-> 0, Time |-> now]

\* The header NewTestChain builds before the commit (chain.go:73-77).
InitialHeader(chainID, now) ==
    [ChainID |-> chainID, Height |-> 1, Time |-> now]

NewTestChainSkipCommit(chainID) ==
    /\ Len(chains) < MaxChains
    /\ nCommits < MaxCommits
    /\ LET header == InitialHeader(chainID, CurrentTime)
       IN  /\ chains' = Append(chains, header)
           /\ committed' = Append(committed, 0)
           /\ lastCall' = [op |-> "NewTestChain", chain |-> Len(chains) + 1,
                           header |-> header, timeBefore |-> CurrentTime,
                           commitsBefore |-> nCommits]
    /\ UNCHANGED <<T0, CurrentTime, nCommits>>
    /\ UNCHANGED <<bankVars, genesisVars, stakingVars, utilVars>>

\* NewTestChain(t, coord, chainID): builds the chain with its header at
\* height 1 and the coordinator's current time, commits it once through the
\* coordinator and returns it.
NewTestChain(chainID) ==
    /\ Len(chains) < MaxChains
    /\ nCommits < MaxCommits
    /\ LET header == InitialHeader(chainID, CurrentTime)
           chain  == Len(chains) + 1
           after  == CommitBlock(Append(chains, header), CurrentTime, chain)
       IN  /\ chains' = after.chains
           /\ CurrentTime' = after.CurrentTime
           /\ committed' = Append(committed, 1)
           /\ nCommits' = nCommits + 1
           /\ lastCall' = [op |-> "NewTestChain", chain |-> chain,
                           header |-> header, timeBefore |-> CurrentTime,
                           commitsBefore |-> nCommits]
    /\ UNCHANGED T0
    /\ UNCHANGED <<bankVars, genesisVars, stakingVars, utilVars>>

\* A test commits an existing chain through the coordinator.
Commit(i) ==
    /\ i \in 1..Len(chains)
    /\ nCommits < MaxCommits
    /\ LET after == CommitBlock(chains, CurrentTime, i)
       IN  /\ chains' = after.chains
           /\ CurrentTime' = after.CurrentTime
    /\ committed' = [committed EXCEPT ![i] = @ + 1]
    /\ nCommits' = nCommits + 1
    /\ lastCall' = [op |-> "Commit", chain |-> i, header |-> chains[i],
                    timeBefore |-> CurrentTime, commitsBefore |-> nCommits]
    /\ UNCHANGED T0
    /\ UNCHANGED <<bankVars, genesisVars, stakingVars, utilVars>>

NoCall == [op |-> "none"]

CoordInit ==
    /\ T0 \in StartTimes
    /\ CurrentTime = T0
    /\ chains = <<>>
    /\ committed = <<>>
    /\ nCommits = 0
    /\ lastCall = NoCall

CoordIdle ==
    /\ T0 = 0
    /\ CurrentTime = 0
    /\ chains = <<>>
    /\ committed = <<>>
    /\ nCommits = 0
    /\ lastCall = NoCall

BankIdle ==
    /\ bankPc = "idle"
    /\ accounts = <<>>
    /\ denomDecimals = <<>>
    /\ totalBonded = <<>>
    /\ balances = <<>>
    /\ totalSupply = <<>>

GenesisIdle ==
    /\ genesisState = <<>>
    /\ genesisBefore = <<>>
    /\ customGen = <<>>
    /\ genResult = NoCall

StakingIdle == stakingCall = NoCall

\* the sdk.Config the Cosmos EVM chain setup leaves: its own bech32 prefixes,
\* the address cache enabled
EvmChainSdkConfig ==
    [AccountAddr |-> "evmos", AccountPub |-> "evmospub",
     ValidatorAddr |-> "evmosvaloper", ValidatorPub |-> "evmosvaloperpub",
     ConsensusAddr |-> "evmosvalcons", ConsensusPub |-> "evmosvalconspub",
     AddrCacheEnabled |-> TRUE]

UtilIdle ==
    /\ sdkConfig = EvmChainSdkConfig
    /\ dummyCall = NoCall
    /\ mergeCall = NoCall
    /\ decCall = NoCall

InitCoord == CoordInit /\ BankIdle /\ GenesisIdle /\ StakingIdle /\ UtilIdle

NextCoord ==
    \/ \E chainID \in ChainIDs : NewTestChain(chainID)
    \/ \E i \in 1..MaxChains : Commit(i)

SpecCoord == InitCoord /\ [][NextCoord]_vars

(***************************************************************************)
(* C1: with the clock starting at T0, after n commits on any chains in any *)
(* order the shared clock is T0 + 5n seconds and every chain committed k   *)
(* times has header height 1 + k (the commit NewTestChain makes counted).  *)
(***************************************************************************)
C1_ClockAndHeights ==
    /\ CurrentTime = T0 + 5 * nCommits
    /\ Len(committed) = Len(chains)
    /\ \A i \in 1..Len(chains) : chains[i].Height = 1 + committed[i]

\* two chains committed a different number of times, several commits made
C1_Witness ==
    /\ Len(chains) >= 2
    /\ nCommits >= 4
    /\ \E i, j \in 1..Len(chains) : chains[i].Height > chains[j].Height + 1

(***************************************************************************)
(* C10: NewTestChain builds the initial header at height 1 with the        *)
(* coordinator's current time, then commits exactly once: the chain it     *)
(* returns has height 2 and the clock has advanced by one 5-second         *)
(* increment.                                                              *)
(***************************************************************************)
C10_NewTestChainCommitsOnce ==
    lastCall.op = "NewTestChain" =>
        /\ lastCall.header.Height = 1
        /\ lastCall.header.Time = lastCall.timeBefore
        /\ chains[lastCall.chain].Height = 2
        /\ chains[lastCall.chain].ChainID = lastCall.header.ChainID
        /\ nCommits = lastCall.commitsBefore + 1
        /\ CurrentTime = lastCall.timeBefore + 5

\* a chain created after the clock has already moved
C10_Witness ==
    /\ lastCall.op = "NewTestChain"
    /\ lastCall.timeBefore > T0
    /\ Len(chains) >= 2

(***************************************************************************)
(* Decimals (src/x/vm/types/denom.go).                                     *)
(***************************************************************************)
SixDecimals == 6

EighteenDecimals == 18

ConversionFactorAlwaysOne(d) == NewInt(1)

\* Decimals.ConversionFactor: 10^12 for six decimals, 1 for anything else.
ConversionFactor(d) ==
    IF d = SixDecimals THEN Pow10(12) ELSE NewInt(1)

\* The initial balance of an account in the 18-decimal representation.
InitialBalance == Pow10(23)

\* GetInitialAmount(decimals): the initial balance scaled down by the
\* conversion factor of the denom's decimals.
GetInitialAmount(d) == IntQuoPow(InitialBalance, ConversionFactor(d))

(***************************************************************************)
(* Denoms and coins (sdk.Coin, sdk.Coins).  A denom is a string, kept as   *)
(* the sequence of its letters' codes so that the lexical order slices.Sort*)
(* and Coins.Sort use can be computed: <<1>> is "a", <<1, 2>> "ab", ...    *)
(***************************************************************************)
Denoms == {<<1>>, <<1, 2>>, <<2>>}

BondDenoms == {<<2>>, <<3>>}

AllDenoms == Denoms \cup BondDenoms

RECURSIVE LexLess(_, _)
LexLess(a, b) ==
    IF b = <<>> THEN FALSE
    ELSE IF a = <<>> THEN TRUE
    ELSE IF Head(a) # Head(b) THEN Head(a) < Head(b)
    ELSE LexLess(Tail(a), Tail(b))

RECURSIVE Insert(_, _)
Insert(x, s) ==
    IF s = <<>> THEN <<x>>
    ELSE IF LexLess(x, Head(s)) THEN <<x>> \o s
    ELSE <<Head(s)>> \o Insert(x, Tail(s))

\* slices.Sort on a list of strings
RECURSIVE Sort(_)
Sort(s) == IF s = <<>> THEN <<>> ELSE Insert(Head(s), Sort(Tail(s)))

\* the orders in which a Go map with key set S may be iterated
Orders(S) ==
    {o \in [1..Cardinality(S) -> S] : \A i, j \in DOMAIN o : i # j => o[i] # o[j]}

NewCoin(denom, amount) == [Denom |-> denom, Amount |-> amount]

CoinsDenoms(coins) == {coins[i].Denom : i \in 1..Len(coins)}

\* the total amount the coins of denom d in the list hold
RECURSIVE AmountOf(_, _)
AmountOf(coins, d) ==
    IF coins = <<>> THEN <<>>
    ELSE IntAdd(IF Head(coins).Denom = d THEN Head(coins).Amount ELSE <<>>,
                AmountOf(Tail(coins), d))

\* Coins.isSorted: no coin's denom is greater than its successor's
CoinsIsSorted(coins) ==
    \A i \in 2..Len(coins) : ~LexLess(coins[i].Denom, coins[i - 1].Denom)

\* Coins.Add panics when either operand is not sorted
CoinsAddPanics(coins, coinsB) ==
    ~CoinsIsSorted(coins) \/ ~CoinsIsSorted(coinsB)

\* Coins.Add(coinsB...): the amounts are summed per denom, zero sums are
\* dropped and the result is sorted by denom.
CoinsAdd(coins, coinsB) ==
    LET all    == coins \o coinsB
        kept   == {d \in CoinsDenoms(all) : ~IntIsZero(AmountOf(all, d))}
        denoms == Sort(CHOOSE o \in Orders(kept) : TRUE)
    IN  [i \in 1..Len(denoms) |-> NewCoin(denoms[i], AmountOf(all, denoms[i]))]

(***************************************************************************)
(* Balances and supply (setup.go:132-159, 390-408).                        *)
(***************************************************************************)
AccAddresses == {"addr1", "addr2"}

\* AccAddress.String(): the bech32 form of the address bytes
AccString(acc) == [bech32 |-> "acc", bytes |-> acc]

\* authtypes.NewModuleAddress(name)
NewModuleAddress(name) == name

BondedPoolName == "bonded_tokens_pool"

createBalancesUnsorted(accs, dd, keys) ==
    LET coins == [i \in 1..Len(keys) |->
                     NewCoin(keys[i], GetInitialAmount(dd[keys[i]]))]
    IN  [i \in 1..Len(accs) |-> [Address |-> AccString(accs[i]), Coins |-> coins]]

\* createBalances(accounts, denomDecimals); keys is what maps.Keys returned
createBalances(accs, dd, keys) ==
    LET denoms == Sort(keys)
        coins  == [i \in 1..Len(denoms) |->
                      NewCoin(denoms[i], GetInitialAmount(dd[denoms[i]]))]
    IN  [i \in 1..Len(accs) |-> [Address |-> AccString(accs[i]), Coins |-> coins]]

\* addBondedModuleAccountToFundedBalances
addBondedModuleAccountToFundedBalances(fundedAccountsBalances, bonded) ==
    Append(fundedAccountsBalances,
           [Address |-> AccString(NewModuleAddress(BondedPoolName)),
            Coins |-> <<bonded>>])

RECURSIVE SupplyFold(_, _)
SupplyFold(acc, bs) ==
    IF bs = <<>> THEN [panic |-> FALSE, coins |-> acc]
    ELSE IF CoinsAddPanics(acc, Head(bs).Coins) THEN [panic |-> TRUE, coins |-> acc]
    ELSE SupplyFold(CoinsAdd(acc, Head(bs).Coins), Tail(bs))

calculateTotalSupplySkipLast(fundedAccountsBalances) ==
    SupplyFold(<<>>, SubSeq(fundedAccountsBalances, 1, Len(fundedAccountsBalances) - 1))

\* calculateTotalSupply: the balances' coins added up, starting from the
\* empty coin set
calculateTotalSupply(fundedAccountsBalances) ==
    SupplyFold(<<>>, fundedAccountsBalances)

(***************************************************************************)
(* The genesis mapping (evmostypes.GenesisState): module name -> the       *)
(* module's genesis, serialized.  A Go map is a reference: a setter writes *)
(* into the caller's map object and returns either that same object        *)
(* ("genesisState") or the nil map ("nil").  A call's outcome is the       *)
(* record [outcome, ret, err, heap] with heap the map object's contents    *)
(* when the call ends.                                                     *)
(***************************************************************************)
\* AppCodec().MustMarshalJSON / MustUnmarshalJSON
MustMarshalJSON(x) == [json |-> x]

MustUnmarshalJSON(blob) == blob.json

\* genesisState[k] = v
MapSet(m, k, v) == [x \in DOMAIN m \cup {k} |-> IF x = k THEN v ELSE m[x]]

NoError == [msg |-> "nil"]

\* fmt.Errorf("invalid type %T for %s module genesis state", customGenesis, moduleName)
InvalidTypeError(t, moduleName) ==
    [msg |-> "invalid type for module genesis state", type |-> t, module |-> moduleName]

Returned(heap) ==
    [outcome |-> "ok", ret |-> "genesisState", err |-> NoError, heap |-> heap]

Failed(heap, err) ==
    [outcome |-> "error", ret |-> "nil", err |-> err, heap |-> heap]

Panicked(heap, msg) ==
    [outcome |-> "panic", ret |-> "none", err |-> [msg |-> msg], heap |-> heap]

\* what a call handed back to its caller, without the map's contents
Outcome(op, r) == [op |-> op, outcome |-> r.outcome, ret |-> r.ret, err |-> r.err]

BankGenesisType == "*banktypes.GenesisState"

AuthGenesisType == "*authtypes.GenesisState"

\* updateBankGenesisStateForChainID: sets the chain's denom metadata
updateBankGenesisStateForChainID(bankGen) ==
    [bankGen EXCEPT !.DenomMetadata = <<"chain-metadata">>]

\* setDefaultBankGenesisState (setup.go:327-339)
setDefaultBankGenesisState(gs, overwriteParams) ==
    LET bankGenesis == [type |-> BankGenesisType,
                        Params |-> "default",
                        Balances |-> overwriteParams.balances,
                        Supply |-> overwriteParams.totalSupply,
                        DenomMetadata |-> <<>>,
                        SendEnabled |-> <<>>]
    IN  MapSet(gs, "bank", MustMarshalJSON(updateBankGenesisStateForChainID(bankGenesis)))

RECURSIVE customCoinsLastOnly(_)
customCoinsLastOnly(bs) ==
    IF bs = <<>> THEN <<>> ELSE bs[Len(bs)].Coins

\* setup.go:369-373: the override balances' coins, appended into one list
RECURSIVE customCoins(_)
customCoins(bs) ==
    IF bs = <<>> THEN <<>> ELSE Head(bs).Coins \o customCoins(Tail(bs))

\* setBankGenesisState (setup.go:358-388)
setBankGenesisState(gs, customGenesis) ==
    IF customGenesis.type # BankGenesisType
    THEN Failed(gs, InvalidTypeError(customGenesis.type, "bank"))
    ELSE
      LET bankGen == MustUnmarshalJSON(gs["bank"])
          hasBal  == Len(customGenesis.Balances) > 0
          coins   == customCoins(customGenesis.Balances)
          g1 == IF hasBal
                THEN [bankGen EXCEPT !.Balances = @ \o customGenesis.Balances,
                                     !.Supply = CoinsAdd(@, coins)]
                ELSE bankGen
          g2 == IF Len(customGenesis.DenomMetadata) > 0
                THEN [g1 EXCEPT !.DenomMetadata = @ \o customGenesis.DenomMetadata]
                ELSE g1
          g3 == IF Len(customGenesis.SendEnabled) > 0
                THEN [g2 EXCEPT !.SendEnabled = @ \o customGenesis.SendEnabled]
                ELSE g2
          g4 == [g3 EXCEPT !.Params = customGenesis.Params]
      IN  IF hasBal /\ CoinsAddPanics(bankGen.Supply, coins)
          THEN Panicked(gs, "coins must be sorted")
          ELSE Returned(MapSet(gs, "bank", MustMarshalJSON(g4)))

(***************************************************************************)
(* The module genesis registry and customizeGenesis (setup.go:56-88,       *)
(* 410-435, 498-530).                                                      *)
(***************************************************************************)
\* setDefaultAuthGenesisState (setup.go:410-415)
setDefaultAuthGenesisState(gs, genAccs) ==
    MapSet(gs, "auth", MustMarshalJSON(
        [type |-> AuthGenesisType, Params |-> "default", Accounts |-> genAccs]))

\* setAuthGenesisState (setup.go:417-435)
setAuthGenesisState(gs, customGenesis) ==
    IF customGenesis.type # AuthGenesisType
    THEN Failed(gs, InvalidTypeError(customGenesis.type, "auth"))
    ELSE
      LET authGen == MustUnmarshalJSON(gs["auth"])
          g1 == IF Len(customGenesis.Accounts) > 0
                THEN [authGen EXCEPT !.Accounts = @ \o customGenesis.Accounts]
                ELSE authGen
          g2 == [g1 EXCEPT !.Params = customGenesis.Params]
      IN  Returned(MapSet(gs, "auth", MustMarshalJSON(g2)))

genStateSetterWritesFirst(moduleName, T, gs, customGenesis) ==
    IF customGenesis.type # T
    THEN Failed(MapSet(gs, moduleName, MustMarshalJSON(customGenesis)),
                InvalidTypeError(customGenesis.type, moduleName))
    ELSE Returned(MapSet(gs, moduleName, MustMarshalJSON(customGenesis)))

genStateSetterSharedKey(moduleName, T, gs, customGenesis) ==
    IF customGenesis.type # T
    THEN Failed(gs, InvalidTypeError(customGenesis.type, moduleName))
    ELSE Returned(MapSet(gs, "evm", MustMarshalJSON(customGenesis)))

\* genStateSetter[T](moduleName) applied to (genesisState, customGenesis)
genStateSetter(moduleName, T, gs, customGenesis) ==
    IF customGenesis.type # T
    THEN Failed(gs, InvalidTypeError(customGenesis.type, moduleName))
    ELSE Returned(MapSet(gs, moduleName, MustMarshalJSON(customGenesis)))

\* the type parameter each generic setter of the registry is built with
GenericSetterType ==
    [evm          |-> "*evmtypes.GenesisState",
     erc20        |-> "*erc20types.GenesisState",
     gov          |-> "*govtypesv1.GenesisState",
     feemarket    |-> "*feemarkettypes.GenesisState",
     distribution |-> "*distrtypes.GenesisState",
     mint         |-> "*minttypes.GenesisState",
     capability   |-> "*capabilitytypes.GenesisState"]

\* the keys of genesisSetupFunctions
RegisteredModules == DOMAIN GenericSetterType \cup {"bank", "auth", "consensus"}

\* genesisSetupFunctions[mod](evmosApp, genesisState, customGenesis)
genesisSetupFunctions(mod, gs, customGenesis) ==
    CASE mod = "bank" -> setBankGenesisState(gs, customGenesis)
      [] mod = "auth" -> setAuthGenesisState(gs, customGenesis)
      [] mod = "consensus" -> Returned(gs)
      [] OTHER -> genStateSetter(mod, GenericSetterType[mod], gs, customGenesis)

RECURSIVE customizeLoopSkipsUnknown(_, _, _, _, _)
customizeLoopSkipsUnknown(cg, heap, order, i, visited) ==
    IF i > Len(order)
    THEN Returned(heap) @@ [visited |-> visited]
    ELSE
      LET mod == order[i]
          seen == Append(visited, mod)
      IN  IF mod \in RegisteredModules
          THEN LET r == genesisSetupFunctions(mod, heap, cg[mod])
               IN  IF r.outcome = "ok"
                   THEN customizeLoopSkipsUnknown(cg, r.heap, order, i + 1, seen)
                   ELSE r @@ [visited |-> seen]
          ELSE customizeLoopSkipsUnknown(cg, heap, order, i + 1, seen)

\* The loop of customizeGenesis (setup.go:519-529) from position i of the
\* iteration order, with the modules visited so far.
RECURSIVE customizeLoop(_, _, _, _, _)
customizeLoop(cg, heap, order, i, visited) ==
    IF i > Len(order)
    THEN Returned(heap) @@ [visited |-> visited]
    ELSE
      LET mod == order[i]
          seen == Append(visited, mod)
      IN  IF mod \in RegisteredModules
          THEN LET r == genesisSetupFunctions(mod, heap, cg[mod])
               IN  IF r.outcome = "ok"
                   THEN customizeLoop(cg, r.heap, order, i + 1, seen)
                   ELSE r @@ [visited |-> seen]
          ELSE [outcome |-> "panic", ret |-> "none",
                err |-> [msg |-> "module not found in genesis setup functions",
                         module |-> mod],
                heap |-> heap, visited |-> seen]

RECURSIVE customizeLoopKeepsGoing(_, _, _, _, _, _)
customizeLoopKeepsGoing(cg, heap, order, i, visited, failed) ==
    IF i > Len(order)
    THEN IF failed = NoCall THEN Returned(heap) @@ [visited |-> visited]
         ELSE [failed EXCEPT !.heap = heap]
    ELSE
      LET mod == order[i]
          seen == Append(visited, mod)
      IN  IF mod \in RegisteredModules
          THEN LET r == genesisSetupFunctions(mod, heap, cg[mod])
               IN  IF r.outcome = "ok"
                   THEN customizeLoopKeepsGoing(cg, r.heap, order, i + 1, seen, failed)
                   ELSE IF r.outcome = "error" /\ failed = NoCall
                   THEN customizeLoopKeepsGoing(cg, heap, order, i + 1, seen,
                                                r @@ [visited |-> seen])
                   ELSE IF r.outcome = "error"
                   THEN customizeLoopKeepsGoing(cg, heap, order, i + 1, seen, failed)
                   ELSE r @@ [visited |-> seen]
          ELSE [outcome |-> "panic", ret |-> "none",
                err |-> [msg |-> "module not found in genesis setup functions",
                         module |-> mod],
                heap |-> heap, visited |-> seen]

customizeGenesisKeepsGoing(cg, gs, order) ==
    customizeLoopKeepsGoing(cg, gs, order, 1, <<>>, NoCall)

customizeGenesisSkipsUnknown(cg, gs, order) ==
    customizeLoopSkipsUnknown(cg, gs, order, 1, <<>>)

\* customizeGenesis(evmosApp, customGen, genesisState); order is the order
\* in which the range over the customGen map yields its keys
customizeGenesis(cg, gs, order) ==
    customizeLoop(cg, gs, order, 1, <<>>)

(***************************************************************************)
(* The default genesis (setup.go:307-356, 437-513).                        *)
(***************************************************************************)
UnregisteredAppModules == {"staking", "slashing"}

AppModules == (RegisteredModules \ {"consensus"}) \cup UnregisteredAppModules

ModuleGenesisType(m) ==
    CASE m = "bank" -> BankGenesisType
      [] m = "auth" -> AuthGenesisType
      [] m = "staking" -> "*stakingtypes.GenesisState"
      [] m = "slashing" -> "*slashingtypes.GenesisState"
      [] m = "consensus" -> "*consensustypes.Params"
      [] OTHER -> GenericSetterType[m]

\* evmosApp.DefaultGenesis(): every application module's default genesis
DefaultGenesis ==
    [m \in AppModules |->
        MustMarshalJSON([type |-> ModuleGenesisType(m), val |-> "default"])]

\* setDefaultStakingGenesisState
setDefaultStakingGenesisState(gs, overwriteParams) ==
    MapSet(gs, "staking", MustMarshalJSON(
        [type |-> ModuleGenesisType("staking"),
         Params |-> [BondDenom |-> overwriteParams.denom],
         Validators |-> overwriteParams.validators,
         Delegations |-> overwriteParams.delegations]))

\* setDefaultGovGenesisState: the minimum deposits are 10^18 divided by the
\* conversion factor of the EVM coin's decimals
setDefaultGovGenesisState(gs, overwriteParams) ==
    LET minDepositAmt == IntQuoPow(Pow10(18), ConversionFactor(overwriteParams.decimals))
        deposit == <<NewCoin(overwriteParams.denom, minDepositAmt)>>
    IN  MapSet(gs, "gov", MustMarshalJSON(
            [type |-> ModuleGenesisType("gov"),
             MinDeposit |-> deposit, ExpeditedMinDeposit |-> deposit]))

\* setDefaultFeeMarketGenesisState
setDefaultFeeMarketGenesisState(gs, overwriteParams) ==
    MapSet(gs, "feemarket", MustMarshalJSON(
        [type |-> ModuleGenesisType("feemarket"), BaseFee |-> overwriteParams.baseFee]))

\* setDefaultSlashingGenesisState
setDefaultSlashingGenesisState(gs, overwriteParams) ==
    MapSet(gs, "slashing", MustMarshalJSON(
        [type |-> ModuleGenesisType("slashing"),
         SigningInfos |-> overwriteParams.signingInfo,
         MissedBlocks |-> overwriteParams.missedBlocks]))

\* setDefaultMintGenesisState
setDefaultMintGenesisState(gs, overwriteParams) ==
    MapSet(gs, "mint", MustMarshalJSON(
        [type |-> ModuleGenesisType("mint"),
         MintDenom |-> overwriteParams.denom,
         InflationMin |-> overwriteParams.inflationMin,
         InflationMax |-> overwriteParams.inflationMax]))

\* setDefaultErc20GenesisState: the example chain's token pairs
setDefaultErc20GenesisState(gs) ==
    MapSet(gs, "erc20", MustMarshalJSON(
        [type |-> ModuleGenesisType("erc20"), val |-> "example-token-pairs"]))

\* newDefaultGenesisState (setup.go:498-513)
newDefaultGenesisState(params) ==
    LET g0 == DefaultGenesis
        g1 == setDefaultAuthGenesisState(g0, params.genAccounts)
        g2 == setDefaultStakingGenesisState(g1, params.staking)
        g3 == setDefaultBankGenesisState(g2, params.bank)
        g4 == setDefaultGovGenesisState(g3, params.gov)
        g5 == setDefaultFeeMarketGenesisState(g4, params.feemarket)
        g6 == setDefaultSlashingGenesisState(g5, params.slashing)
        g7 == setDefaultMintGenesisState(g6, params.mint)
    IN  setDefaultErc20GenesisState(g7)

\* the default genesis parameters of a network with the given funded accounts
DefaultGenesisParams(accs) ==
    LET dd       == [d \in {<<1>>} |-> EighteenDecimals]
        bonded   == NewCoin(<<1>>, NewInt(5))
        funded   == addBondedModuleAccountToFundedBalances(
                        createBalances(accs, dd, <<(<<1>>)>>), bonded)
    IN  [genAccounts |-> accs,
         staking   |-> [denom |-> <<1>>, validators |-> <<>>, delegations |-> <<>>],
         slashing  |-> [signingInfo |-> <<>>, missedBlocks |-> <<>>],
         bank      |-> [totalSupply |-> calculateTotalSupply(funded).coins,
                        balances |-> funded],
         gov       |-> [denom |-> <<1>>, decimals |-> EighteenDecimals],
         mint      |-> [denom |-> <<1>>, inflationMin |-> 0, inflationMax |-> 0],
         feemarket |-> [baseFee |-> 0]]

(***************************************************************************)
(* The balance and supply pipeline of the network setup: createBalances,   *)
(* addBondedModuleAccountToFundedBalances, calculateTotalSupply,           *)
(* setDefaultBankGenesisState, then a bank override.                       *)
(***************************************************************************)
MaxAccounts == 2
MaxCustomBalances == 2

BondedAmounts == {NewInt(0), NewInt(5)}

\* coin lists an override balance may carry
CustomCoinLists ==
    { <<NewCoin(<<1>>, NewInt(7))>>,
      <<NewCoin(<<2>>, NewInt(3))>>,
      <<NewCoin(<<1>>, NewInt(1)), NewCoin(<<2>>, NewInt(999999))>> }

CustomBalances ==
    {[Address |-> AccString("addr3"), Coins |-> c] : c \in CustomCoinLists}

BankOverrides ==
    {[type |-> BankGenesisType, Params |-> "custom", Balances |-> bs,
      Supply |-> <<>>, DenomMetadata |-> md, SendEnabled |-> <<>>] :
        bs \in SeqsUpTo(CustomBalances, MaxCustomBalances),
        md \in {<<>>, <<"custom-metadata">>}}

CreateBalances ==
    /\ bankPc = "start"
    /\ \E accs \in SeqsUpTo(AccAddresses, MaxAccounts) :
       \E D \in SUBSET Denoms :
       \E dd \in [D -> {SixDecimals, EighteenDecimals}] :
       \E keys \in Orders(D) :
          /\ accounts' = accs
          /\ denomDecimals' = dd
          /\ balances' = createBalances(accs, dd, keys)
    /\ bankPc' = "balances"
    /\ UNCHANGED <<totalBonded, totalSupply>>
    /\ UNCHANGED <<coordVars, genesisVars, stakingVars, utilVars>>

AddBonded ==
    /\ bankPc = "balances"
    /\ \E d \in BondDenoms : \E a \in BondedAmounts :
          /\ totalBonded' = NewCoin(d, a)
          /\ balances' = addBondedModuleAccountToFundedBalances(balances, NewCoin(d, a))
    /\ bankPc' = "bonded"
    /\ UNCHANGED <<accounts, denomDecimals, totalSupply>>
    /\ UNCHANGED <<coordVars, genesisVars, stakingVars, utilVars>>

CalculateTotalSupply ==
    /\ bankPc = "bonded"
    /\ LET r == calculateTotalSupply(balances)
       IN  /\ totalSupply' = r.coins
           /\ bankPc' = IF r.panic THEN "panicked" ELSE "supply"
    /\ UNCHANGED <<accounts, denomDecimals, totalBonded, balances>>
    /\ UNCHANGED <<coordVars, genesisVars, stakingVars, utilVars>>

SetDefaultBankGenesisState ==
    /\ bankPc = "supply"
    /\ genesisState' = setDefaultBankGenesisState(
                          genesisState, [totalSupply |-> totalSupply, balances |-> balances])
    /\ bankPc' = "genesis"
    /\ UNCHANGED <<genesisBefore, customGen, genResult>>
    /\ UNCHANGED <<accounts, denomDecimals, totalBonded, balances, totalSupply>>
    /\ UNCHANGED <<coordVars, stakingVars, utilVars>>

SetBankGenesisState ==
    /\ bankPc = "genesis"
    /\ \E custom \in BankOverrides :
          LET r == setBankGenesisState(genesisState, custom)
          IN  /\ customGen' = [bank |-> custom]
              /\ genResult' = Outcome("setBankGenesisState", r)
              /\ genesisState' = r.heap
    /\ genesisBefore' = genesisState
    /\ bankPc' = "overridden"
    /\ UNCHANGED <<accounts, denomDecimals, totalBonded, balances, totalSupply>>
    /\ UNCHANGED <<coordVars, stakingVars, utilVars>>

InitBank ==
    /\ bankPc = "start"
    /\ accounts = <<>>
    /\ denomDecimals = <<>>
    /\ totalBonded = <<>>
    /\ balances = <<>>
    /\ totalSupply = <<>>
    /\ genesisState = DefaultGenesis
    /\ genesisBefore = <<>>
    /\ customGen = <<>>
    /\ genResult = NoCall
    /\ CoordIdle /\ StakingIdle /\ UtilIdle

NextBank ==
    \/ CreateBalances
    \/ AddBonded
    \/ CalculateTotalSupply
    \/ SetDefaultBankGenesisState
    \/ SetBankGenesisState

SpecBank == InitBank /\ [][NextBank]_vars

\* the bank genesis held in the genesis mapping
BankGen == MustUnmarshalJSON(genesisState["bank"])

\* the sum, over the balances, of what they hold of denom d
RECURSIVE SumBalances(_, _)
SumBalances(bs, d) ==
    IF bs = <<>> THEN <<>>
    ELSE IntAdd(AmountOf(Head(bs).Coins, d), SumBalances(Tail(bs), d))

\* a canonical coin set: denoms strictly increasing, no zero amount
ValidCoins(coins) ==
    /\ \A i \in 2..Len(coins) : LexLess(coins[i - 1].Denom, coins[i].Denom)
    /\ \A i \in 1..Len(coins) : ~IntIsZero(coins[i].Amount)

(***************************************************************************)
(* C2: the supply calculateTotalSupply returns for the balances of         *)
(* createBalances extended with the bonded pool equals, per denom, the sum *)
(* of the account coins (one initial amount per account for each denom of  *)
(* the mapping) plus the bonded amount in the bond denom, exactly.         *)
(***************************************************************************)
C2_SupplyIsAccountsPlusBonded ==
    /\ bankPc # "panicked"
    /\ bankPc \in {"supply", "genesis", "overridden"} =>
          /\ ValidCoins(totalSupply)
          /\ CoinsDenoms(totalSupply) \subseteq AllDenoms
          /\ \A d \in AllDenoms :
                AmountOf(totalSupply, d) =
                    IntAdd(IF d \in DOMAIN denomDecimals
                           THEN IntMulSmall(GetInitialAmount(denomDecimals[d]),
                                            Len(accounts))
                           ELSE <<>>,
                           IF totalBonded.Denom = d THEN totalBonded.Amount ELSE <<>>)

\* two accounts, both precisions, a bonded amount in a denom the accounts hold
C2_Witness ==
    /\ bankPc = "supply"
    /\ Len(accounts) = 2
    /\ \E d, e \in DOMAIN denomDecimals :
          denomDecimals[d] = SixDecimals /\ denomDecimals[e] = EighteenDecimals
    /\ totalBonded.Denom \in DOMAIN denomDecimals
    /\ ~IntIsZero(totalBonded.Amount)

(***************************************************************************)
(* C3: after setBankGenesisState has been applied with a bank override to  *)
(* a genesis whose bank supply equals the sum of its balances, the bank    *)
(* supply of the genesis again equals, per denom, the sum of all its bank  *)
(* balances, the appended override balances included.                      *)
(***************************************************************************)
C3_SupplyMatchesBalancesAfterOverride ==
    bankPc \in {"genesis", "overridden"} =>
        /\ ValidCoins(BankGen.Supply)
        /\ \A d \in AllDenoms :
              AmountOf(BankGen.Supply, d) = SumBalances(BankGen.Balances, d)
        /\ (bankPc = "overridden" /\ genResult.outcome = "ok") =>
              BankGen.Balances =
                  MustUnmarshalJSON(genesisBefore["bank"]).Balances
                      \o customGen.bank.Balances

\* an override with two balances applied on top of funded accounts
C3_Witness ==
    /\ bankPc = "overridden"
    /\ genResult.outcome = "ok"
    /\ Len(customGen.bank.Balances) = 2
    /\ Len(accounts) >= 1
    /\ DOMAIN denomDecimals # {}
    /\ BankGen.Supply # MustUnmarshalJSON(genesisBefore["bank"]).Supply

(***************************************************************************)
(* C9: createBalances returns one Balance per account in input order, and  *)
(* each Balance's coin list holds exactly one coin per denom of the        *)
(* mapping, the denoms in lexically sorted order with none repeated.       *)
(***************************************************************************)
C9_BalancesSortedOnePerDenom ==
    bankPc = "balances" =>
        /\ Len(balances) = Len(accounts)
        /\ \A i \in 1..Len(balances) :
              /\ balances[i].Address = AccString(accounts[i])
              /\ Len(balances[i].Coins) = Cardinality(DOMAIN denomDecimals)
              /\ CoinsDenoms(balances[i].Coins) = DOMAIN denomDecimals
              /\ \A j \in 2..Len(balances[i].Coins) :
                    LexLess(balances[i].Coins[j - 1].Denom, balances[i].Coins[j].Denom)

\* two different accounts and three denoms, one a prefix of another
C9_Witness ==
    /\ bankPc = "balances"
    /\ Len(accounts) = 2
    /\ accounts[1] # accounts[2]
    /\ DOMAIN denomDecimals = Denoms

(***************************************************************************)
(* Overrides applied through customizeGenesis.                             *)
(***************************************************************************)
MaxOverrides == 3

OverrideModules == {"bank", "auth", "evm", "gov", "consensus", "staking"}

BankOverrideSorted ==
    [type |-> BankGenesisType, Params |-> "custom",
     Balances |-> <<[Address |-> AccString("addr3"),
                     Coins |-> <<NewCoin(<<1>>, NewInt(7)), NewCoin(<<2>>, NewInt(3))>>]>>,
     Supply |-> <<>>, DenomMetadata |-> <<>>, SendEnabled |-> <<"send">>]

BankOverrideUnsorted ==
    [BankOverrideSorted EXCEPT
        !.Balances = <<[Address |-> AccString("addr3"), Coins |-> <<NewCoin(<<2>>, NewInt(3))>>],
                       [Address |-> AccString("addr4"), Coins |-> <<NewCoin(<<1>>, NewInt(7))>>]>>]

AuthOverride ==
    [type |-> AuthGenesisType, Params |-> "custom", Accounts |-> <<"addr9">>]

GenericOverride(m) == [type |-> ModuleGenesisType(m), val |-> "custom"]

\* the override values tried for module m: of the type its setter expects,
\* and of another type
OverrideValues(m) ==
    CASE m = "bank" -> {BankOverrideSorted, BankOverrideUnsorted, AuthOverride}
      [] m = "auth" -> {AuthOverride, BankOverrideSorted}
      [] m = "consensus" -> {GenericOverride(m)}
      [] m = "staking" -> {GenericOverride(m)}
      [] OTHER -> {GenericOverride(m), GenericOverride("mint")}

CustomGenesisStates ==
    UNION {{cg \in [D -> UNION {OverrideValues(m) : m \in D}] :
               \A m \in D : cg[m] \in OverrideValues(m)} :
           D \in {D \in SUBSET OverrideModules : Cardinality(D) <= MaxOverrides}}

CustomizeGenesis ==
    /\ genResult = NoCall
    /\ \E cg \in CustomGenesisStates : \E order \in Orders(DOMAIN cg) :
          LET r == customizeGenesis(cg, genesisState, order)
          IN  /\ customGen' = cg
              /\ genResult' = Outcome("customizeGenesis", r) @@ [visited |-> r.visited]
              /\ genesisState' = r.heap
    /\ genesisBefore' = genesisState
    /\ UNCHANGED <<coordVars, bankVars, stakingVars, utilVars>>

InitGenesis ==
    /\ \E accs \in SeqsUpTo(AccAddresses, 1) :
          genesisState = newDefaultGenesisState(DefaultGenesisParams(accs))
    /\ genesisBefore = <<>>
    /\ customGen = <<>>
    /\ genResult = NoCall
    /\ CoordIdle /\ BankIdle /\ StakingIdle /\ UtilIdle

NextGenesis == CustomizeGenesis

SpecGenesis == InitGenesis /\ [][NextGenesis]_vars

\* the entry of module m in genesis mapping g
Entry(g, m) == IF m \in DOMAIN g THEN g[m] ELSE [json |-> "absent"]

LastVisited == genResult.visited[Len(genResult.visited)]

(***************************************************************************)
(* C4: an override for a registered module whose value is not of the type  *)
(* the module's setter expects yields a returned error (no panic) that     *)
(* names the module and the received type, and the genesis mapping's entry *)
(* for that module stays as it was before the call.                        *)
(***************************************************************************)
C4_TypeMismatchIsReturnedError ==
    (genResult.op = "customizeGenesis" /\ genResult.visited # <<>>) =>
        LET m == LastVisited
            mismatch == /\ m \in RegisteredModules \ {"consensus"}
                        /\ customGen[m].type # ModuleGenesisType(m)
        IN  /\ mismatch =>
                 /\ genResult.outcome = "error"
                 /\ genResult.err.module = m
                 /\ genResult.err.type = customGen[m].type
                 /\ Entry(genesisState, m) = Entry(genesisBefore, m)
            /\ genResult.outcome = "error" => mismatch

\* a bank override of the auth genesis type, met after another override
\* was applied
C4_Witness ==
    /\ genResult.op = "customizeGenesis"
    /\ genResult.outcome = "error"
    /\ genResult.err.module = "bank"
    /\ Len(genResult.visited) = 2
    /\ genesisState # genesisBefore

(***************************************************************************)
(* C5: when customizeGenesis meets an override whose module name has no    *)
(* registered setter it panics; it does not return, with or without an     *)
(* error.                                                                  *)
(***************************************************************************)
C5_UnknownModulePanics ==
    (genResult.op = "customizeGenesis" /\ genResult.visited # <<>>) =>
        /\ LastVisited \notin RegisteredModules =>
              /\ genResult.outcome = "panic"
              /\ genResult.ret = "none"
              /\ genResult.err.module = LastVisited
        /\ (genResult.outcome = "ok" /\ genResult.ret = "genesisState") =>
              DOMAIN customGen \subseteq RegisteredModules

\* the unregistered module met after a registered one was applied
C5_Witness ==
    /\ genResult.op = "customizeGenesis"
    /\ genResult.outcome = "panic"
    /\ genResult.visited = <<"evm", "staking">>
    /\ genesisState # genesisBefore

(***************************************************************************)
(* Staking validators (setup.go:181-255).                                  *)
(***************************************************************************)
\* sdkmath.LegacyDec: a decimal kept as an Int scaled by 10^LegacyPrecision
LegacyPrecision == 18

\* LegacyNewDecWithPrec(i, prec) = i / 10^prec
LegacyNewDecWithPrec(i, prec) == IntMulSmall(Pow10(LegacyPrecision - prec), i)

LegacyOneDec == Pow10(LegacyPrecision)

\* stakingtypes.NewCommission(rate, maxRate, maxChangeRate)
NewCommission(rate, maxRate, maxChangeRate) ==
    [Rate |-> rate, MaxRate |-> maxRate, MaxChangeRate |-> maxChangeRate,
     UpdateTime |-> 0]

DefaultCommissionSwapped ==
    NewCommission(LegacyNewDecWithPrec(2, 1), LegacyNewDecWithPrec(5, 2),
                  LegacyNewDecWithPrec(5, 2))

\* setup.go:198-199: "Default to 5% commission"
DefaultCommission ==
    NewCommission(LegacyNewDecWithPrec(5, 2), LegacyNewDecWithPrec(2, 1),
                  LegacyNewDecWithPrec(5, 2))

\* the consensus key types a validator may carry, and those
\* cryptocodec.FromTmPubKeyInterface converts to an SDK key
PubKeyTypes == {"ed25519", "secp256k1", "sr25519"}

ConvertibleKeyTypes == {"ed25519", "secp256k1"}

FromTmPubKeyInterface(pubKey) ==
    IF pubKey.type \in ConvertibleKeyTypes
    THEN [err |-> NoError, pk |-> [sdk |-> pubKey.type, key |-> pubKey.key]]
    ELSE [err |-> [msg |-> "key type is not supported", type |-> pubKey.type],
          pk |-> [sdk |-> "nil", key |-> "nil"]]

\* codectypes.NewAnyWithValue(pk)
NewAnyWithValue(pk) == [typeUrl |-> pk.sdk, value |-> pk.key]

\* ValAddress(bytes).String(): the bech32 form with the validator prefix
ValAddressString(bytes) == [bech32 |-> "valoper", bytes |-> bytes]

NilOperator == "nil"

\* createStakingValidator(val, bondedAmt, operatorAddr)
createStakingValidator(val, bondedAmt, operatorAddr) ==
    LET conv == FromTmPubKeyInterface(val.PubKey)
        opAddr == IF operatorAddr # NilOperator
                  THEN ValAddressString(operatorAddr)
                  ELSE ValAddressString(val.Address)
    IN  IF conv.err # NoError
        THEN [err |-> conv.err, validator |-> [empty |-> TRUE]]
        ELSE [err |-> NoError,
              validator |->
                 [OperatorAddress   |-> opAddr,
                  ConsensusPubkey   |-> NewAnyWithValue(conv.pk),
                  Jailed            |-> FALSE,
                  Status            |-> "Bonded",
                  Tokens            |-> bondedAmt,
                  DelegatorShares   |-> LegacyOneDec,
                  Description       |-> "",
                  UnbondingHeight   |-> 0,
                  UnbondingTime     |-> 0,
                  Commission        |-> DefaultCommission,
                  MinSelfDelegation |-> NewInt(0)]]

StakingReturned(validators) ==
    [outcome |-> "ok", validators |-> validators, err |-> NoError]

StakingFailed(err) ==
    [outcome |-> "error", validators |-> <<>>, err |-> err]

StakingPanicked(msg) ==
    [outcome |-> "panic", validators |-> <<>>, err |-> [msg |-> msg]]

\* the loops of setup.go:229-236 and 247-254 from position i on; ops is the
\* operator of each validator (NilOperator for none)
RECURSIVE stakingLoop(_, _, _, _, _)
stakingLoop(tmValidators, bondedAmt, ops, i, stakingValidators) ==
    IF i > Len(tmValidators) THEN StakingReturned(stakingValidators)
    ELSE LET r == createStakingValidator(tmValidators[i], bondedAmt, ops[i])
         IN  IF r.err # NoError THEN StakingFailed(r.err)
             ELSE stakingLoop(tmValidators, bondedAmt, ops, i + 1,
                              Append(stakingValidators, r.validator))

createStakingValidatorsWithRandomOperatorOffByOne(tmValidators, bondedAmt) ==
    stakingLoop(SubSeq(tmValidators, 1, Len(tmValidators) - 1), bondedAmt,
                [i \in 1..Len(tmValidators) |-> NilOperator], 1, <<>>)

\* createStakingValidatorsWithRandomOperator
createStakingValidatorsWithRandomOperator(tmValidators, bondedAmt) ==
    stakingLoop(tmValidators, bondedAmt,
                [i \in 1..Len(tmValidators) |-> NilOperator], 1, <<>>)

createStakingValidatorsWithSpecificOperatorTooFewOnly(tmValidators, bondedAmt, operatorsAddresses) ==
    IF Len(operatorsAddresses) < Len(tmValidators)
    THEN StakingPanicked("provided validator operator keys but need more")
    ELSE stakingLoop(tmValidators, bondedAmt, operatorsAddresses, 1, <<>>)

\* createStakingValidatorsWithSpecificOperator
createStakingValidatorsWithSpecificOperator(tmValidators, bondedAmt, operatorsAddresses) ==
    IF Len(operatorsAddresses) # Len(tmValidators)
    THEN StakingPanicked("provided validator operator keys but need more")
    ELSE stakingLoop(tmValidators, bondedAmt, operatorsAddresses, 1, <<>>)

\* createStakingValidators
createStakingValidators(tmValidators, bondedAmt, operatorsAddresses) ==
    IF Len(operatorsAddresses) = 0
    THEN createStakingValidatorsWithRandomOperator(tmValidators, bondedAmt)
    ELSE createStakingValidatorsWithSpecificOperator(tmValidators, bondedAmt,
                                                     operatorsAddresses)

MaxValidators == 2
MaxOperators == 2

ValAddresses == {"val1", "val2"}

\* consensus validators (cmttypes.Validator): address and public key
TmValidators ==
    {[Address |-> a, PubKey |-> [type |-> t, key |-> a]] :
        a \in ValAddresses, t \in PubKeyTypes}

BondedAmts == {NewInt(1), Pow10(18)}

CreateStakingValidators ==
    /\ stakingCall = NoCall
    /\ \E tms \in SeqsUpTo(TmValidators, MaxValidators) :
       \E amt \in BondedAmts :
       \E ops \in SeqsUpTo(AccAddresses, MaxOperators) :
          LET r == createStakingValidators(tms, amt, ops)
          IN  stakingCall' = [op |-> "createStakingValidators",
                              tmValidators |-> tms, bondedAmt |-> amt,
                              operatorsAddresses |-> ops,
                              outcome |-> r.outcome, validators |-> r.validators,
                              err |-> r.err]
    /\ UNCHANGED <<coordVars, bankVars, genesisVars, utilVars>>

InitStaking == StakingIdle /\ CoordIdle /\ BankIdle /\ GenesisIdle /\ UtilIdle

NextStaking == CreateStakingValidators

SpecStaking == InitStaking /\ [][NextStaking]_vars

Called == stakingCall.op = "createStakingValidators"

AllKeysConvert(tms) ==
    \A i \in 1..Len(tms) : tms[i].PubKey.type \in ConvertibleKeyTypes

\* validator i of the result is the default record for consensus validator i,
\* operated by itself: Bonded, not jailed, nothing unbonding, commission
\* 5% / 20% / 5%
SelfOperatedDefault(i) ==
    LET v  == stakingCall.validators[i]
        tm == stakingCall.tmValidators[i]
    IN  /\ v.OperatorAddress = [bech32 |-> "valoper", bytes |-> tm.Address]
        /\ v.ConsensusPubkey.value = tm.PubKey.key
        /\ v.Status = "Bonded"
        /\ v.Jailed = FALSE
        /\ v.UnbondingHeight = 0
        /\ v.UnbondingTime = 0
        /\ IntIsZero(v.MinSelfDelegation)
        /\ v.Tokens = stakingCall.bondedAmt
        /\ IntMulSmall(v.Commission.Rate, 100) = IntMulSmall(Pow10(18), 5)
        /\ IntMulSmall(v.Commission.MaxRate, 100) = IntMulSmall(Pow10(18), 20)
        /\ IntMulSmall(v.Commission.MaxChangeRate, 100) = IntMulSmall(Pow10(18), 5)

(***************************************************************************)
(* C6: createStakingValidators with a non-empty operatorAddresses list     *)
(* whose length differs from the number of consensus validators panics: it *)
(* returns neither a list, partial or not, nor an error value.             *)
(***************************************************************************)
C6_OperatorCountMismatchPanics ==
    (/\ Called
     /\ Len(stakingCall.operatorsAddresses) # 0
     /\ Len(stakingCall.operatorsAddresses) # Len(stakingCall.tmValidators)) =>
        /\ stakingCall.outcome = "panic"
        /\ stakingCall.validators = <<>>

\* more operators than validators, and fewer
C6_Witness ==
    /\ Called
    /\ stakingCall.outcome = "panic"
    /\ Len(stakingCall.operatorsAddresses) = 2
    /\ Len(stakingCall.tmValidators) = 1
    /\ AllKeysConvert(stakingCall.tmValidators)

(***************************************************************************)
(* C7 as stated: createStakingValidators with an empty operatorAddresses   *)
(* list produces exactly one staking validator per input consensus         *)
(* validator, in input order, each the self-operated default record.       *)
(***************************************************************************)
C7_OnePerValidatorAlways ==
    (Called /\ Len(stakingCall.operatorsAddresses) = 0) =>
        /\ stakingCall.outcome = "ok"
        /\ Len(stakingCall.validators) = Len(stakingCall.tmValidators)
        /\ \A i \in 1..Len(stakingCall.validators) : SelfOperatedDefault(i)

(***************************************************************************)
(* C7 amended: with an empty operatorAddresses list, when every consensus  *)
(* validator's public key converts to an SDK key the call produces exactly *)
(* one staking validator per input validator, in input order, each the     *)
(* self-operated default record; when some key does not convert it returns *)
(* the conversion error and no list.                                       *)
(***************************************************************************)
C7_OnePerValidatorWhenKeysConvert ==
    (Called /\ Len(stakingCall.operatorsAddresses) = 0) =>
        IF AllKeysConvert(stakingCall.tmValidators)
        THEN /\ stakingCall.outcome = "ok"
             /\ Len(stakingCall.validators) = Len(stakingCall.tmValidators)
             /\ \A i \in 1..Len(stakingCall.validators) : SelfOperatedDefault(i)
        ELSE /\ stakingCall.outcome = "error"
             /\ stakingCall.validators = <<>>
             /\ stakingCall.err # NoError

\* two different consensus validators, no operators given
C7_Witness ==
    /\ Called
    /\ Len(stakingCall.operatorsAddresses) = 0
    /\ Len(stakingCall.tmValidators) = 2
    /\ stakingCall.tmValidators[1].Address # stakingCall.tmValidators[2].Address
    /\ stakingCall.outcome = "ok"

(***************************************************************************)
(* C8 as stated: every staking validator record produced has a commission  *)
(* with rate <= max-rate <= max-change-rate.                               *)
(***************************************************************************)
C8_RateLeMaxRateLeMaxChangeRate ==
    Called =>
        \A i \in 1..Len(stakingCall.validators) :
            LET c == stakingCall.validators[i].Commission
            IN  IntLE(c.Rate, c.MaxRate) /\ IntLE(c.MaxRate, c.MaxChangeRate)

(***************************************************************************)
(* C8 amended: every staking validator record produced has a commission    *)
(* with rate <= max-rate and max-change-rate <= max-rate.                  *)
(***************************************************************************)
C8_RateAndMaxChangeRateLeMaxRate ==
    Called =>
        \A i \in 1..Len(stakingCall.validators) :
            LET c == stakingCall.validators[i].Commission
            IN  IntLE(c.Rate, c.MaxRate) /\ IntLE(c.MaxChangeRate, c.MaxRate)

\* validators produced with given operators
C8_Witness ==
    /\ Called
    /\ stakingCall.outcome = "ok"
    /\ Len(stakingCall.validators) = 2
    /\ Len(stakingCall.operatorsAddresses) = 2

(***************************************************************************)
(* mergeMaps (src/testutil/integration/ibc/coordinator/utils.go:47-53).    *)
(* A Go map is a reference: the call works on map objects, objs[1] and     *)
(* objs[2], and its arguments m1 and m2 are references p1 and p2 to them   *)
(* (possibly to the same object).  A map's values are *TestChain pointers. *)
(***************************************************************************)
MergeKeys == {"chain-a", "dummychain-1", "dummychain-2"}

ChainPointers == {"chainX", "chainY"}

\* the maps with keys among K and values among V
Maps(K, V) == UNION {[D -> V] : D \in SUBSET K}

\* the loop "for k, v := range m2 { m1[k] = v }" over the keys in the given
\* order, from position i on
RECURSIVE mergeLoop(_, _, _, _, _)
mergeLoop(objs, p1, p2, order, i) ==
    IF i > Len(order) THEN objs
    ELSE mergeLoop([objs EXCEPT ![p1] = MapSet(@, order[i], objs[p2][order[i]])],
                   p1, p2, order, i + 1)

RECURSIVE mergeLoopKeepsExisting(_, _, _, _, _)
mergeLoopKeepsExisting(objs, p1, p2, order, i) ==
    IF i > Len(order) THEN objs
    ELSE mergeLoopKeepsExisting(
             IF order[i] \in DOMAIN objs[p1] THEN objs
             ELSE [objs EXCEPT ![p1] = MapSet(@, order[i], objs[p2][order[i]])],
             p1, p2, order, i + 1)

mergeMapsKeepsExisting(objs, p1, p2, order) ==
    [objects |-> mergeLoopKeepsExisting(objs, p1, p2, order, 1), ret |-> p1]

\* mergeMaps(m1, m2): writes every entry of m2 into m1 and returns m1
mergeMaps(objs, p1, p2, order) ==
    [objects |-> mergeLoop(objs, p1, p2, order, 1), ret |-> p1]

MergeMaps ==
    /\ mergeCall = NoCall
    /\ \E a, b \in Maps(MergeKeys, ChainPointers) :
       \E p1, p2 \in {1, 2} :
       \E order \in Orders(DOMAIN (<<a, b>>[p2])) :
          LET r == mergeMaps(<<a, b>>, p1, p2, order)
          IN  mergeCall' = [op |-> "mergeMaps", before |-> <<a, b>>,
                            m1 |-> p1, m2 |-> p2,
                            after |-> r.objects, ret |-> r.ret]
    /\ UNCHANGED <<sdkConfig, dummyCall, decCall>>
    /\ UNCHANGED <<coordVars, bankVars, genesisVars, stakingVars>>

InitMerge ==
    UtilIdle /\ CoordIdle /\ BankIdle /\ GenesisIdle /\ StakingIdle

NextMerge == MergeMaps

SpecMerge == InitMerge /\ [][NextMerge]_vars

(***************************************************************************)
(* C11: mergeMaps(m1, m2) returns a mapping whose key set is the union of  *)
(* the key sets of m1 and m2; every key of m2 maps to m2's chain, also     *)
(* when m1 has the key, every key only in m1 maps to m1's chain, and m2    *)
(* itself is left unchanged.                                               *)
(***************************************************************************)
C11_MergeIsUnionSecondWins ==
    mergeCall.op = "mergeMaps" =>
        LET m1 == mergeCall.before[mergeCall.m1]
            m2 == mergeCall.before[mergeCall.m2]
            r  == mergeCall.after[mergeCall.ret]
        IN  /\ DOMAIN r = DOMAIN m1 \cup DOMAIN m2
            /\ \A k \in DOMAIN m2 : r[k] = m2[k]
            /\ \A k \in DOMAIN m1 \ DOMAIN m2 : r[k] = m1[k]
            /\ mergeCall.after[mergeCall.m2] = m2

\* two map objects with a key only in m1, a key only in m2 and a key in
\* both that maps to different chains
C11_Witness ==
    /\ mergeCall.op = "mergeMaps"
    /\ mergeCall.m1 # mergeCall.m2
    /\ LET m1 == mergeCall.before[mergeCall.m1]
           m2 == mergeCall.before[mergeCall.m2]
       IN  /\ DOMAIN m1 \ DOMAIN m2 # {}
           /\ DOMAIN m2 \ DOMAIN m1 # {}
           /\ \E k \in DOMAIN m1 \cap DOMAIN m2 : m1[k] # m2[k]

(***************************************************************************)
(* generateDummyChains                                                     *)
(* (src/testutil/integration/ibc/coordinator/utils.go:23-45).              *)
(***************************************************************************)
MaxDummyChains == 11

\* sdk.Bech32PrefixAccAddr and the prefixes derived from it, and the address
\* cache switched off (utils.go:31-37)
DefaultSdkConfig ==
    [AccountAddr |-> "cosmos", AccountPub |-> "cosmospub",
     ValidatorAddr |-> "cosmosvaloper", ValidatorPub |-> "cosmosvaloperpub",
     ConsensusAddr |-> "cosmosvalcons", ConsensusPub |-> "cosmosvalconspub",
     AddrCacheEnabled |-> FALSE]

DecimalDigits == <<"0", "1", "2", "3", "4", "5", "6", "7", "8", "9">>

\* strconv.Itoa: the decimal digits of i, most significant first, with a
\* leading minus sign for a negative i
RECURSIVE Itoa(_)
Itoa(i) ==
    IF i < 0 THEN "-" \o Itoa(0 - i)
    ELSE IF i < 10 THEN DecimalDigits[i + 1]
    ELSE Itoa(i \div 10) \o DecimalDigits[(i % 10) + 1]

dummyChainIDZeroBased(i) == "dummychain-" \o Itoa(i - 1)

\* chainID := "dummychain-" + strconv.Itoa(i)
dummyChainID(i) == "dummychain-" \o Itoa(i)

\* ibctesting.NewTestChain(t, coord, chainID) of the ibc-go testing library,
\* on the coordinator's chain objects cs and clock now: the new chain starts
\* at height 1 and is committed once through coord.
LibNewTestChain(cs, now, chainID) ==
    CommitBlock(Append(cs, InitialHeader(chainID, now)), now, Len(cs) + 1)

\* make([]string, numberOfChains): a slice of empty strings
MakeStrings(n) == [j \in 1..n |-> ""]

\* the loop "for i := 1; i <= numberOfChains; i++" from index i on; st holds
\* the coordinator (chains, CurrentTime), the map ibcChains (chain ID ->
\* chain object) and the slice ids
RECURSIVE dummyLoop(_, _, _)
dummyLoop(st, i, numberOfChains) ==
    IF i > numberOfChains THEN st
    ELSE LET chainID == dummyChainID(i)
             after   == LibNewTestChain(st.chains, st.CurrentTime, chainID)
         IN  dummyLoop([chains      |-> after.chains,
                        CurrentTime |-> after.CurrentTime,
                        ids         |-> [st.ids EXCEPT ![i] = chainID],
                        ibcChains   |-> MapSet(st.ibcChains, chainID,
                                               Len(after.chains))],
                       i + 1, numberOfChains)

\* generateDummyChains(t, coord, numberOfChains) on the coordinator
\* (cs, now); make panics for a negative length, before anything is changed
generateDummyChains(cs, now, numberOfChains) ==
    IF numberOfChains < 0
    THEN [outcome |-> "panic", chains |-> cs, CurrentTime |-> now,
          sdkConfig |-> sdkConfig]
    ELSE LET st == dummyLoop([chains |-> cs, CurrentTime |-> now,
                              ids |-> MakeStrings(numberOfChains),
                              ibcChains |-> <<>>], 1, numberOfChains)
         IN  [outcome |-> "return", chains |-> st.chains,
              CurrentTime |-> st.CurrentTime, sdkConfig |-> DefaultSdkConfig,
              ibcChains |-> st.ibcChains, ids |-> st.ids]

GenerateDummyChains(numberOfChains) ==
    /\ dummyCall = NoCall
    /\ LET r == generateDummyChains(chains, CurrentTime, numberOfChains)
           made == Len(r.chains) - Len(chains)
       IN  /\ chains' = r.chains
           /\ CurrentTime' = r.CurrentTime
           /\ sdkConfig' = r.sdkConfig
           /\ committed' = committed \o [j \in 1..made |-> 1]
           /\ nCommits' = nCommits + made
           /\ dummyCall' =
                 IF r.outcome = "panic"
                 THEN [op |-> "generateDummyChains", n |-> numberOfChains,
                       outcome |-> "panic"]
                 ELSE [op |-> "generateDummyChains", n |-> numberOfChains,
                       outcome |-> "return",
                       ibcChains |-> r.ibcChains, ids |-> r.ids,
                       chainsBefore |-> Len(chains),
                       chainsAfter |-> Len(r.chains),
                       timeBefore |-> CurrentTime,
                       timeAfter |-> r.CurrentTime,
                       commitsBefore |-> nCommits,
                       commitsAfter |-> nCommits + made]
    /\ UNCHANGED <<T0, lastCall, mergeCall, decCall>>
    /\ UNCHANGED <<bankVars, genesisVars, stakingVars>>

InitDummy == CoordInit /\ BankIdle /\ GenesisIdle /\ StakingIdle /\ UtilIdle

NextDummy ==
    \/ \E chainID \in ChainIDs : NewTestChain(chainID)
    \/ \E i \in 1..MaxChains : Commit(i)
    \/ \E n \in -1..MaxDummyChains : GenerateDummyChains(n)

SpecDummy == InitDummy /\ [][NextDummy]_vars

(***************************************************************************)
(* C12: for every n >= 0, generateDummyChains(n) returns exactly n chains, *)
(* keyed by the IDs dummychain-1 .. dummychain-n; position i-1 of the      *)
(* returned ID list (1-based position i here) holds dummychain-i; each     *)
(* chain is created through the same coordinator: the n chains are n new   *)
(* chain objects of the one coordinator, which made one commit for each.   *)
(***************************************************************************)
C12_DummyChainsOneToN ==
    (dummyCall.op = "generateDummyChains" /\ dummyCall.n >= 0) =>
        /\ dummyCall.outcome = "return"
        /\ Len(dummyCall.ids) = dummyCall.n
        /\ \A i \in 1..dummyCall.n :
              /\ dummyCall.ids[i] = "dummychain-" \o ToString(i)
              /\ dummyCall.ibcChains[dummyCall.ids[i]] = dummyCall.chainsBefore + i
              /\ chains[dummyCall.chainsBefore + i].ChainID = dummyCall.ids[i]
        /\ DOMAIN dummyCall.ibcChains = Range(dummyCall.ids)
        /\ Cardinality(DOMAIN dummyCall.ibcChains) = dummyCall.n
        /\ dummyCall.chainsAfter = dummyCall.chainsBefore + dummyCall.n
        /\ dummyCall.commitsAfter = dummyCall.commitsBefore + dummyCall.n
        /\ dummyCall.timeAfter = dummyCall.timeBefore + TimeIncrement * dummyCall.n

\* a call for at least ten chains (a two-digit index) on a coordinator that
\* already holds a chain
C12_Witness ==
    /\ dummyCall.op = "generateDummyChains"
    /\ dummyCall.outcome = "return"
    /\ dummyCall.n >= 10
    /\ dummyCall.chainsBefore > 0
    /\ sdkConfig = DefaultSdkConfig

(***************************************************************************)
(* Decimals (src/x/vm/types/denom.go:13-50): an 8-bit unsigned value.      *)
(***************************************************************************)
MaxUint8 == 255

DecimalsValues == 0..MaxUint8

\* fmt.Errorf("received unsupported decimals: %d", d)
UnsupportedDecimalsError(d) ==
    [msg |-> "received unsupported decimals", decimals |-> d]

ValidateSixOnly(d) ==
    IF d = SixDecimals THEN NoError ELSE UnsupportedDecimalsError(d)

\* Decimals.Validate: nil for the two supported values, an error otherwise
Validate(d) ==
    CASE d = SixDecimals      -> NoError
      [] d = EighteenDecimals -> NoError
      [] OTHER                -> UnsupportedDecimalsError(d)

ValidateCall(d) ==
    /\ decCall = NoCall
    /\ decCall' = [op |-> "Validate", d |-> d, err |-> Validate(d)]
    /\ UNCHANGED <<sdkConfig, dummyCall, mergeCall>>
    /\ UNCHANGED <<coordVars, bankVars, genesisVars, stakingVars>>

ConversionFactorCall(d) ==
    /\ decCall = NoCall
    /\ decCall' = [op |-> "ConversionFactor", d |-> d,
                   factor |-> ConversionFactor(d)]
    /\ UNCHANGED <<sdkConfig, dummyCall, mergeCall>>
    /\ UNCHANGED <<coordVars, bankVars, genesisVars, stakingVars>>

InitDecimals ==
    UtilIdle /\ CoordIdle /\ BankIdle /\ GenesisIdle /\ StakingIdle

NextDecimals ==
    \/ \E d \in DecimalsValues : ValidateCall(d)
    \/ \E d \in DecimalsValues : ConversionFactorCall(d)

SpecDecimals == InitDecimals /\ [][NextDecimals]_vars

(***************************************************************************)
(* C13: Validate succeeds for exactly the two supported values 6 and 18,   *)
(* and returns an unsupported-decimals error for every other value of the  *)
(* 8-bit unsigned range.                                                   *)
(***************************************************************************)
C13_ValidateAcceptsSixAndEighteenOnly ==
    decCall.op = "Validate" =>
        /\ decCall.err = NoError <=> decCall.d \in {6, 18}
        /\ decCall.d \notin {6, 18} =>
              /\ decCall.err.msg = "received unsupported decimals"
              /\ decCall.err.decimals = decCall.d

C13_Witness ==
    /\ decCall.op = "Validate"
    /\ decCall.d = 18
    /\ decCall.err = NoError

(***************************************************************************)
(* C14: ConversionFactor returns exactly 10^12 for the 6-decimal value and *)
(* exactly 1 for the 18-decimal value; for every value that Validate       *)
(* rejects it does not fail but returns 1, the 18-decimal factor.  (In the *)
(* base-10^6 limbs of the model 10^12 is <<0, 0, 1>> and 1 is <<1>>.)      *)
(***************************************************************************)
C14_ConversionFactorValues ==
    decCall.op = "ConversionFactor" =>
        /\ decCall.d = 6 => decCall.factor = <<0, 0, 1>>
        /\ decCall.d = 18 => decCall.factor = <<1>>
        /\ Validate(decCall.d) # NoError => decCall.factor = <<1>>

\* a value that Validate rejects, converted all the same
C14_Witness ==
    /\ decCall.op = "ConversionFactor"
    /\ decCall.d = MaxUint8
    /\ Validate(decCall.d) # NoError
    /\ decCall.factor = <<1>>

(***************************************************************************)
(* Order of the overrides in customizeGenesis (setup.go:515-530).          *)
(***************************************************************************)
\* override value v has the type the setter of module m expects (the
\* consensus setter takes any value)
WellTyped(m, v) ==
    /\ m \in RegisteredModules
    /\ m = "consensus" \/ v.type = ModuleGenesisType(m)

AllWellTyped(cg) == \A m \in DOMAIN cg : WellTyped(m, cg[m])

\* the modules whose entry in the caller's genesis map object is not what it
\* was when the call began
ChangedEntries ==
    {m \in DOMAIN genesisState \cup DOMAIN genesisBefore :
        Entry(genesisState, m) # Entry(genesisBefore, m)}

\* the overrides visited before the last one visited
VisitedBeforeLast ==
    {genResult.visited[i] : i \in 1..(Len(genResult.visited) - 1)}

\* the override of module m applied alone to genesis mapping gs
AppliedAlone(gs, m) ==
    customizeGenesis([k \in {m} |-> customGen[m]], gs, <<m>>)

(***************************************************************************)
(* C15: when every override names a registered module and has the type its *)
(* setter expects, customizeGenesis gives the same outcome and, when it    *)
(* returns, the same genesis mapping for every order in which the          *)
(* overrides are visited; each module's entry is what its override applied *)
(* alone makes it, and the entries of modules without override stay.       *)
(***************************************************************************)
C15_OrderIndependent ==
    (genResult.op = "customizeGenesis" /\ AllWellTyped(customGen)) =>
        /\ genResult.outcome # "error"
        /\ \A order \in Orders(DOMAIN customGen) :
              LET r == customizeGenesis(customGen, genesisBefore, order)
              IN  /\ r.outcome = genResult.outcome
                  /\ r.ret = genResult.ret
                  /\ r.outcome = "ok" => r.heap = genesisState
        /\ genResult.outcome = "ok" =>
              /\ \A m \in DOMAIN customGen :
                    Entry(genesisState, m) =
                        Entry(AppliedAlone(genesisBefore, m).heap, m)
              /\ ChangedEntries \subseteq DOMAIN customGen

\* three well-typed overrides, the bank and the auth one among them, applied
C15_Witness ==
    /\ genResult.op = "customizeGenesis"
    /\ genResult.outcome = "ok"
    /\ AllWellTyped(customGen)
    /\ Cardinality(DOMAIN customGen) = 3
    /\ {"bank", "auth"} \subseteq ChangedEntries
    /\ Cardinality(ChangedEntries) = 3

(***************************************************************************)
(* C16: customizeGenesis stops at the first setter that returns an error:  *)
(* it returns that error at once (the error of the override visited last,  *)
(* all overrides before it having been applied without error), and the     *)
(* only module entries of the genesis mapping that differ from before the  *)
(* call are those of overrides visited before the failing one.             *)
(***************************************************************************)
C16_StopsAtFirstError ==
    (genResult.op = "customizeGenesis" /\ genResult.outcome = "error") =>
        /\ genResult.visited # <<>>
        /\ genResult.err.module = LastVisited
        /\ ~WellTyped(LastVisited, customGen[LastVisited])
        /\ \A m \in VisitedBeforeLast : WellTyped(m, customGen[m])
        /\ ChangedEntries \subseteq VisitedBeforeLast
        /\ \A m \in DOMAIN customGen \ VisitedBeforeLast :
              Entry(genesisState, m) = Entry(genesisBefore, m)

\* an error at the second of three overrides: the first was applied, the
\* third, which would have changed its entry, was not run
C16_Witness ==
    /\ genResult.op = "customizeGenesis"
    /\ genResult.outcome = "error"
    /\ Cardinality(DOMAIN customGen) = 3
    /\ Len(genResult.visited) = 2
    /\ ChangedEntries = VisitedBeforeLast
    /\ \E m \in DOMAIN customGen \ Range(genResult.visited) :
          /\ WellTyped(m, customGen[m])
          /\ m # "consensus"

====
